---- MODULE Spec2Model ----
(***************************************************************************)
(* Model of transfer_learning.py: the module-level two-phase training      *)
(* sequence, the on_batch_end reporting callback, the checkpoint files     *)
(* written by ModelCheckpoint and the final save.                          *)
(*                                                                         *)
(* The framework calls (compile, fit_generator, evaluate_generator, save)  *)
(* are modelled by what the script can observe of them: they return or     *)
(* raise, fit_generator runs steps_per_epoch minibatches per epoch, calls  *)
(* on_batch_end after each minibatch and the checkpoint callback after     *)
(* each epoch.  The image data, the weights and the metric values are      *)
(* abstracted (metric values range over MetricVals).                       *)
(***************************************************************************)
EXTENDS Integers, Sequences, FiniteSets

\* ---- bounds of the model (not program constants) ----
MaxSteps == 2            \* step_size_train ranges over 1..MaxSteps
MaxSinkFailures == 2     \* at most this many failing on_batch_end invocations per run

\* ---- program constants ----
NumBaseLayers == 311     \* len(base_model.layers): InceptionV3(include_top=False)
NumNewLayers == 5        \* GlobalAveragePooling2D + 4 Dense
FreezeFrom == 249        \* model.layers[:249] / model.layers[249:]
Phase1Epochs == 50       \* epochs=50
Phase2FitEpochs == 1     \* epochs=1
EPOCHS == 10
TEST_INTERVAL == 1

NumLayers == NumBaseLayers + NumNewLayers
Layers == 0 .. (NumLayers - 1)
BaseLayers == 0 .. (NumBaseLayers - 1)
NewLayers == NumBaseLayers .. (NumLayers - 1)

MetricVals == {0, 1}
\* which of the two report_scalar calls of on_batch_end raises, if any
SinkOutcomes == {"ok", "fail_first", "fail_second"}

VARIABLES
    pc,               \* statement of the script about to run; "done" / "aborted"
    failedAt,         \* statement whose exception left the script, or "none"
    trainable,        \* layer index -> layer.trainable
    optimizer,        \* optimizer of the most recent compile, "none" before
    flagsChanged,     \* a trainable flag was assigned since the most recent compile
    step_size_train,  \* train_generator.n // train_generator.batch_size
    i,                \* loop variable of the phase-2 loop
    inFit,            \* a fit_generator call is in progress
    fitEpochs,        \* epochs argument of the fit call in progress
    epoch,            \* 0-based epoch index inside the fit call in progress
    step,             \* minibatches done in the current epoch
    fitCalls,         \* fit_generator calls started
    evalCalls,        \* evaluate_generator calls returned
    epochsDone,       \* training epochs completed in the run
    batchesDone,      \* minibatches whose on_batch_end returned
    trainReports,     \* report_scalar calls of on_batch_end accepted by the sink
    testReports,      \* test report_scalar calls accepted by the sink
    sinkFailures,     \* on_batch_end invocations in which report_scalar raised
    printedErrors,    \* exceptions printed by on_batch_end
    testReportFailures, \* test report_scalar calls that raised
    lastBatchReport,  \* <<tag, value>> pairs sent by the latest on_batch_end
    lastLogs,         \* logs argument of the latest on_batch_end
    ckptWrites,       \* n -> number of writes of weights.<n>.hdf5
    finalSaves,       \* writes of tmnt_koopa_<timestamp>.h5
    printedFinal      \* the final evaluation result was printed

vars == <<pc, failedAt, trainable, optimizer, flagsChanged, step_size_train, i,
          inFit, fitEpochs, epoch, step, fitCalls, evalCalls, epochsDone,
          batchesDone, trainReports, testReports, sinkFailures, printedErrors,
          testReportFailures, lastBatchReport, lastLogs, ckptWrites,
          finalSaves, printedFinal>>

fitVars == <<inFit, fitEpochs, epoch, step>>
layerVars == <<trainable, optimizer, flagsChanged>>
sinkVars == <<trainReports, testReports, sinkFailures, printedErrors,
              testReportFailures, lastBatchReport, lastLogs>>
countVars == <<fitCalls, evalCalls, epochsDone, batchesDone>>
fileVars == <<ckptWrites, finalSaves, printedFinal>>

\* ---- order of the module-level statements ----
\* recompile placed before the trainable flags are re-tuned
NextPcCompileBeforeRetune(p) ==
    CASE p = "freeze1" -> "compile1"
      [] p = "compile1" -> "gen1"
      [] p = "gen1" -> "fit1"
      [] p = "fit1" -> "print_layers"
      [] p = "print_layers" -> "compile2"
      [] p = "compile2" -> "retune"
      [] p = "retune" -> "gen2"
      [] p = "gen2" -> "gentest"
      [] p = "gentest" -> "loop"
      [] p = "fit2" -> "test_check"
      [] p = "eval" -> "report"
      [] p = "report" -> "loop"
      [] p = "save" -> "finaleval"
      [] p = "finaleval" -> "print_result"
      [] p = "print_result" -> "done"
      [] OTHER -> p

\* model.save indented into the loop body
NextPcSaveInLoop(p) ==
    CASE p = "freeze1" -> "compile1"
      [] p = "compile1" -> "gen1"
      [] p = "gen1" -> "fit1"
      [] p = "fit1" -> "print_layers"
      [] p = "print_layers" -> "retune"
      [] p = "retune" -> "compile2"
      [] p = "compile2" -> "gen2"
      [] p = "gen2" -> "gentest"
      [] p = "gentest" -> "loop"
      [] p = "fit2" -> "test_check"
      [] p = "eval" -> "report"
      [] p = "report" -> "save"
      [] p = "save" -> IF i < EPOCHS THEN "loop" ELSE "finaleval"
      [] p = "finaleval" -> "print_result"
      [] p = "print_result" -> "done"
      [] OTHER -> p

NextPc(p) ==
    CASE p = "freeze1" -> "compile1"
      [] p = "compile1" -> "gen1"
      [] p = "gen1" -> "fit1"
      [] p = "fit1" -> "print_layers"
      [] p = "print_layers" -> "retune"
      [] p = "retune" -> "compile2"
      [] p = "compile2" -> "gen2"
      [] p = "gen2" -> "gentest"
      [] p = "gentest" -> "loop"
      [] p = "fit2" -> "test_check"
      [] p = "eval" -> "report"
      [] p = "report" -> "loop"
      [] p = "save" -> "finaleval"
      [] p = "finaleval" -> "print_result"
      [] p = "print_result" -> "done"
      [] OTHER -> p

\* an exception swallowed instead of leaving the script
PropagateSwallowed(p) == NextPc(p)

\* an exception raised at statement p is not caught: the process ends there
Propagate(p) == "aborted"

\* statements that call into the framework and can raise
FallibleSteps == {"compile1", "gen1", "fit1", "compile2", "gen2", "gentest",
                  "fit2", "eval", "save", "finaleval"}

\* off-by-one loop bound
LoopContinuesInclusive(n) == n <= EPOCHS

\* for i in range(EPOCHS)
LoopContinues(n) == n < EPOCHS

\* test only every second iteration
TestDueEverySecond(n) == n % 2 = 0

\* if i % TEST_INTERVAL == 0
TestDue(n) == n % TEST_INTERVAL = 0

\* ---- trainable flags ----
\* off-by-one slice boundary
RetuneFlagsOffByOne == [k \in Layers |-> ~(k < FreezeFrom + 1)]

\* model.layers[:249] -> False, model.layers[249:] -> True
RetuneFlags == [k \in Layers |-> ~(k < FreezeFrom)]

\* for layer in base_model.layers: layer.trainable = False
FreezeBase(t) == [k \in Layers |-> IF k \in BaseLayers THEN FALSE ELSE t[k]]

\* ---- the reporting callback ----
\* the callback without its try/except
on_batch_end_uncaught(batch, logs, o) ==
    [sent |-> IF o = "fail_first" THEN << >>
              ELSE IF o = "fail_second" THEN << <<"Train loss", logs.loss>> >>
              ELSE << <<"Train loss", logs.loss>>,
                      <<"Train accuracy", logs.categorical_accuracy>> >>,
     printed |-> 0,
     raised |-> o # "ok"]

\* the callback reporting the accuracy before the loss
on_batch_end_swapped(batch, logs, o) ==
    [sent |-> IF o = "fail_first" THEN << >>
              ELSE IF o = "fail_second"
                   THEN << <<"Train accuracy", logs.categorical_accuracy>> >>
              ELSE << <<"Train accuracy", logs.categorical_accuracy>>,
                      <<"Train loss", logs.loss>> >>,
     printed |-> IF o = "ok" THEN 0 ELSE 1,
     raised |-> FALSE]

\* on_batch_end(batch, logs) under sink outcome o: what reaches the sink,
\* how many exceptions are printed, whether an exception leaves the callback
on_batch_end(batch, logs, o) ==
    [sent |-> IF o = "fail_first" THEN << >>
              ELSE IF o = "fail_second" THEN << <<"Train loss", logs.loss>> >>
              ELSE << <<"Train loss", logs.loss>>,
                      <<"Train accuracy", logs.categorical_accuracy>> >>,
     printed |-> IF o = "ok" THEN 0 ELSE 1,
     raised |-> FALSE]

\* ModelCheckpoint('weights.{epoch:02d}.hdf5'): the number in the file name is
\* the 1-based epoch index inside the current fit call
CheckpointEpoch(e) == e + 1

Init ==
    /\ pc = "freeze1"
    /\ failedAt = "none"
    /\ trainable = [k \in Layers |-> TRUE]
    /\ optimizer = "none"
    /\ flagsChanged = FALSE
    /\ step_size_train = 0
    /\ i = 0
    /\ inFit = FALSE
    /\ fitEpochs = 0
    /\ epoch = 0
    /\ step = 0
    /\ fitCalls = 0
    /\ evalCalls = 0
    /\ epochsDone = 0
    /\ batchesDone = 0
    /\ trainReports = 0
    /\ testReports = 0
    /\ sinkFailures = 0
    /\ printedErrors = 0
    /\ testReportFailures = 0
    /\ lastBatchReport = << >>
    /\ lastLogs = [loss |-> 0, categorical_accuracy |-> 0]
    /\ ckptWrites = [n \in 1 .. Phase1Epochs |-> 0]
    /\ finalSaves = 0
    /\ printedFinal = FALSE

\* lines 37-38
Freeze1 ==
    /\ pc = "freeze1"
    /\ trainable' = FreezeBase(trainable)
    /\ flagsChanged' = TRUE
    /\ pc' = NextPc(pc)
    /\ UNCHANGED <<failedAt, optimizer, step_size_train, i, fitVars, sinkVars,
                   countVars, fileVars>>

\* line 41
Compile1 ==
    /\ pc = "compile1"
    /\ optimizer' = "rmsprop"
    /\ flagsChanged' = FALSE
    /\ pc' = NextPc(pc)
    /\ UNCHANGED <<failedAt, trainable, step_size_train, i, fitVars, sinkVars,
                   countVars, fileVars>>

\* lines 76-77 and 109-110
MakeTrainGenerator ==
    /\ pc \in {"gen1", "gen2"}
    /\ \E s \in 1 .. MaxSteps : step_size_train' = s
    /\ pc' = NextPc(pc)
    /\ UNCHANGED <<failedAt, layerVars, i, fitVars, sinkVars, countVars, fileVars>>

\* lines 112-113
MakeTestGenerator ==
    /\ pc = "gentest"
    /\ pc' = NextPc(pc)
    /\ UNCHANGED <<failedAt, layerVars, step_size_train, i, fitVars, sinkVars,
                   countVars, fileVars>>

\* lines 80-84 and 120-124: the fit_generator call starts
FitBegin ==
    /\ pc \in {"fit1", "fit2"}
    /\ ~inFit
    /\ inFit' = TRUE
    /\ fitEpochs' = IF pc = "fit1" THEN Phase1Epochs ELSE Phase2FitEpochs
    /\ epoch' = 0
    /\ step' = 0
    /\ fitCalls' = fitCalls + 1
    /\ UNCHANGED <<pc, failedAt, layerVars, step_size_train, i, sinkVars,
                   evalCalls, epochsDone, batchesDone, fileVars>>

\* one minibatch of the running fit call, then on_batch_end (lines 45-50)
TrainBatch ==
    /\ inFit
    /\ epoch < fitEpochs
    /\ step < step_size_train
    /\ \E l \in MetricVals, a \in MetricVals, o \in SinkOutcomes :
        /\ (o # "ok") => sinkFailures < MaxSinkFailures
        /\ LET r == on_batch_end(step, [loss |-> l, categorical_accuracy |-> a], o)
           IN  /\ lastBatchReport' = r.sent
               /\ lastLogs' = [loss |-> l, categorical_accuracy |-> a]
               /\ trainReports' = trainReports + Len(r.sent)
               /\ sinkFailures' = sinkFailures + (IF o = "ok" THEN 0 ELSE 1)
               /\ printedErrors' = printedErrors + r.printed
               /\ IF r.raised
                  THEN /\ pc' = Propagate(pc)
                       /\ failedAt' = "on_batch_end"
                       /\ inFit' = FALSE
                       /\ UNCHANGED <<step, batchesDone>>
                  ELSE /\ step' = step + 1
                       /\ batchesDone' = batchesDone + 1
                       /\ UNCHANGED <<pc, failedAt, inFit>>
    /\ UNCHANGED <<layerVars, step_size_train, i, fitEpochs, epoch, fitCalls,
                   evalCalls, epochsDone, testReports, testReportFailures,
                   fileVars>>

\* end of an epoch: ModelCheckpoint writes weights.<epoch>.hdf5 (lines 84, 124)
EpochEnd ==
    /\ inFit
    /\ epoch < fitEpochs
    /\ step = step_size_train
    /\ ckptWrites' = [ckptWrites EXCEPT ![CheckpointEpoch(epoch)] = @ + 1]
    /\ epoch' = epoch + 1
    /\ step' = 0
    /\ epochsDone' = epochsDone + 1
    /\ UNCHANGED <<pc, failedAt, layerVars, step_size_train, i, inFit, fitEpochs,
                   sinkVars, fitCalls, evalCalls, batchesDone, finalSaves,
                   printedFinal>>

\* the fit_generator call returns
FitReturn ==
    /\ inFit
    /\ epoch = fitEpochs
    /\ inFit' = FALSE
    /\ pc' = NextPc(pc)
    /\ UNCHANGED <<failedAt, layerVars, step_size_train, i, fitEpochs, epoch,
                   step, sinkVars, countVars, fileVars>>

\* lines 92-93
PrintLayers ==
    /\ pc = "print_layers"
    /\ pc' = NextPc(pc)
    /\ UNCHANGED <<failedAt, layerVars, step_size_train, i, fitVars, sinkVars,
                   countVars, fileVars>>

\* lines 97-100
Retune ==
    /\ pc = "retune"
    /\ trainable' = RetuneFlags
    /\ flagsChanged' = TRUE
    /\ pc' = NextPc(pc)
    /\ UNCHANGED <<failedAt, optimizer, step_size_train, i, fitVars, sinkVars,
                   countVars, fileVars>>

\* lines 104-105
Compile2 ==
    /\ pc = "compile2"
    /\ optimizer' = "sgd"
    /\ flagsChanged' = FALSE
    /\ pc' = NextPc(pc)
    /\ UNCHANGED <<failedAt, trainable, step_size_train, i, fitVars, sinkVars,
                   countVars, fileVars>>

\* line 118
LoopHead ==
    /\ pc = "loop"
    /\ pc' = IF LoopContinues(i) THEN "fit2" ELSE "save"
    /\ UNCHANGED <<failedAt, layerVars, step_size_train, i, fitVars, sinkVars,
                   countVars, fileVars>>

\* line 125
TestCheck ==
    /\ pc = "test_check"
    /\ IF TestDue(i)
       THEN pc' = "eval" /\ i' = i
       ELSE pc' = "loop" /\ i' = i + 1
    /\ UNCHANGED <<failedAt, layerVars, step_size_train, fitVars, sinkVars,
                   countVars, fileVars>>

\* lines 126-127
Evaluate ==
    /\ pc = "eval"
    /\ evalCalls' = evalCalls + 1
    /\ pc' = NextPc(pc)
    /\ UNCHANGED <<failedAt, layerVars, step_size_train, i, fitVars, sinkVars,
                   fitCalls, epochsDone, batchesDone, fileVars>>

\* line 128: the test report, outside any try
TestReport(failed) ==
    /\ pc = "report"
    /\ IF failed
       THEN /\ testReportFailures' = testReportFailures + 1
            /\ failedAt' = pc
            /\ pc' = Propagate(pc)
            /\ UNCHANGED <<testReports, i>>
       ELSE /\ testReports' = testReports + 1
            /\ i' = i + 1
            /\ pc' = NextPc(pc)
            /\ UNCHANGED <<testReportFailures, failedAt>>
    /\ UNCHANGED <<layerVars, step_size_train, fitVars, trainReports,
                   sinkFailures, printedErrors, lastBatchReport, lastLogs,
                   countVars, fileVars>>

\* line 130
SaveModel ==
    /\ pc = "save"
    /\ finalSaves' = finalSaves + 1
    /\ pc' = NextPc(pc)
    /\ UNCHANGED <<failedAt, layerVars, step_size_train, i, fitVars, sinkVars,
                   countVars, ckptWrites, printedFinal>>

\* line 132
FinalEvaluate ==
    /\ pc = "finaleval"
    /\ evalCalls' = evalCalls + 1
    /\ pc' = NextPc(pc)
    /\ UNCHANGED <<failedAt, layerVars, step_size_train, i, fitVars, sinkVars,
                   fitCalls, epochsDone, batchesDone, fileVars>>

\* line 133
PrintResult ==
    /\ pc = "print_result"
    /\ printedFinal' = TRUE
    /\ pc' = NextPc(pc)
    /\ UNCHANGED <<failedAt, layerVars, step_size_train, i, fitVars, sinkVars,
                   countVars, ckptWrites, finalSaves>>

\* a framework call raises: nothing in the script catches it
Fail ==
    /\ pc \in FallibleSteps
    /\ failedAt = "none"
    /\ failedAt' = pc
    /\ pc' = Propagate(pc)
    /\ inFit' = FALSE
    /\ UNCHANGED <<layerVars, step_size_train, i, fitEpochs, epoch, step,
                   sinkVars, countVars, fileVars>>

Next ==
    \/ Freeze1
    \/ Compile1
    \/ MakeTrainGenerator
    \/ MakeTestGenerator
    \/ FitBegin
    \/ TrainBatch
    \/ EpochEnd
    \/ FitReturn
    \/ PrintLayers
    \/ Retune
    \/ Compile2
    \/ LoopHead
    \/ TestCheck
    \/ Evaluate
    \/ TestReport(FALSE)
    \/ TestReport(TRUE)
    \/ SaveModel
    \/ FinalEvaluate
    \/ PrintResult
    \/ Fail

Spec == Init /\ [][Next]_vars

\* the run in which every framework call and the test report return
\* (report_scalar may still raise inside on_batch_end)
NextReturning ==
    \/ Freeze1
    \/ Compile1
    \/ MakeTrainGenerator
    \/ MakeTestGenerator
    \/ FitBegin
    \/ TrainBatch
    \/ EpochEnd
    \/ FitReturn
    \/ PrintLayers
    \/ Retune
    \/ Compile2
    \/ LoopHead
    \/ TestCheck
    \/ Evaluate
    \/ TestReport(FALSE)
    \/ SaveModel
    \/ FinalEvaluate
    \/ PrintResult

\* the script is one thread that runs whenever it can
FairSpec == Init /\ [][NextReturning]_vars /\ WF_vars(NextReturning)

\* ---------------------------------------------------------------------
\* C1: a report_scalar failure inside on_batch_end never aborts training:
\* whenever a callback invocation hits a sink failure, the exception is
\* printed, the callback returns, the minibatch counts as completed and
\* the enclosing fit call is still running at the same statement.
C1_SinkFailureNeverAbortsTraining ==
    /\ [](failedAt # "on_batch_end")
    /\ [][sinkFailures' > sinkFailures =>
            /\ inFit /\ inFit'
            /\ pc' = pc
            /\ failedAt' = "none"
            /\ printedErrors' = printedErrors + 1
            /\ step' = step + 1
            /\ batchesDone' = batchesDone + 1]_vars

C1_Witness == pc = "done" /\ sinkFailures >= 1 /\ printedErrors >= 1

\* C2 (as stated): a failure of the test report_scalar call does not stop
\* the script.
C2_TestReportFailureDoesNotStop == testReportFailures > 0 => pc # "aborted"

\* C3: phase 1 (one fit of 50 epochs, rmsprop, backbone frozen) comes
\* first; the flags are re-tuned and the model recompiled with SGD only
\* after it returned; every fit call runs on a compile made after the
\* latest trainable-flag assignment, and no flag changes between a compile
\* and the fit calls that use it.
C3_TwoPhasesInOrder ==
    /\ [](inFit => (optimizer # "none" /\ ~flagsChanged))
    /\ []((inFit /\ pc = "fit1") =>
            /\ optimizer = "rmsprop"
            /\ fitEpochs = Phase1Epochs
            /\ fitCalls = 1
            /\ \A k \in BaseLayers : ~trainable[k])
    /\ []((inFit /\ pc = "fit2") =>
            /\ optimizer = "sgd"
            /\ fitEpochs = Phase2FitEpochs
            /\ fitCalls = i + 2
            /\ epochsDone >= Phase1Epochs)
    /\ [](optimizer = "sgd" => (epochsDone >= Phase1Epochs /\ ~flagsChanged))
    /\ [][trainable' # trainable =>
            \/ optimizer = "none"
            \/ (optimizer = "rmsprop" /\ fitCalls = 1 /\ ~inFit
                /\ epochsDone = Phase1Epochs)]_vars

C3_Witness == inFit /\ pc = "fit2" /\ i = EPOCHS - 1 /\ step = 1

\* C4 (as stated): no checkpoint write goes to a file that an earlier epoch
\* of the run has already written.
C4_NoCheckpointOverwrite == \A n \in 1 .. Phase1Epochs : ckptWrites[n] <= 1

\* C5: a failure of a framework call (generator, compile, fit, evaluate,
\* save) ends the script at that statement: no later step runs, and unless
\* the failure came after the save statement was reached the final model
\* file does not exist.
C5_FailurePropagates ==
    failedAt \in FallibleSteps =>
        /\ pc = "aborted"
        /\ ~ENABLED Next
        /\ ~printedFinal
        /\ failedAt \notin {"save", "finaleval"} => finalSaves = 0

C5_Witness == failedAt = "fit2" /\ i = 3 /\ epoch = 0 /\ step = 1

\* C6: the final model file is written exactly once in a successful run,
\* after all phase-2 epochs and their test evaluations and before the final
\* evaluation, whose result is printed and not reported; nothing trains or
\* reports after the save.
C6_FinalSaveOnceAtEnd ==
    /\ [](finalSaves <= 1)
    /\ [](finalSaves = 1 =>
            /\ i = EPOCHS
            /\ epochsDone = Phase1Epochs + EPOCHS * Phase2FitEpochs
            /\ testReports = EPOCHS
            /\ evalCalls >= EPOCHS
            /\ ~inFit)
    /\ [](evalCalls = EPOCHS + 1 => finalSaves = 1)
    /\ [](printedFinal => (finalSaves = 1 /\ evalCalls = EPOCHS + 1))
    /\ [](pc = "done" => (finalSaves = 1 /\ printedFinal /\ testReports = EPOCHS))
    /\ [][finalSaves = 1 =>
            /\ batchesDone' = batchesDone
            /\ epochsDone' = epochsDone
            /\ fitCalls' = fitCalls
            /\ trainReports' = trainReports
            /\ testReports' = testReports]_vars

C6_Witness == pc = "done" /\ finalSaves = 1 /\ printedFinal

C8_TestOncePerInterval ==
    /\ optimizer # "sgd" => (evalCalls = 0 /\ testReports = 0)
    /\ pc \in {"fit1", "print_layers", "retune", "compile2", "gen2", "gentest"}
          => (evalCalls = 0 /\ testReports = 0)
    /\ pc = "fit2" => (evalCalls = i /\ testReports = i /\ fitCalls \in {i + 1, i + 2})
    /\ (pc = "fit2" /\ inFit) => fitCalls = i + 2
    /\ pc = "eval" => (evalCalls = i /\ testReports = i /\ fitCalls = i + 2 /\ ~inFit)
    /\ pc = "report" => (evalCalls = i + 1 /\ testReports = i /\ fitCalls = i + 2 /\ ~inFit)
    /\ pc = "done" => testReports = EPOCHS

C8_Witness == pc = "done" /\ testReports = EPOCHS /\ evalCalls = EPOCHS + 1

\* C9: at every fit call the layers below index 249 are frozen and the new
\* classifier layers are trainable; backbone layers from index 249 on are
\* frozen in phase 1 and trainable in phase 2.
C9_TrainableFlagsAtFit ==
    pc \in {"fit1", "fit2"} =>
        \A k \in Layers :
            /\ k < FreezeFrom => ~trainable[k]
            /\ k \in NewLayers => trainable[k]
            /\ (k \in BaseLayers /\ k >= FreezeFrom) => (trainable[k] <=> pc = "fit2")

C9_Witness == pc = "fit2" /\ inFit /\ i = 1

====
